---- MODULE Spec2Model ----
(***************************************************************************)
(* Model of the research workflow (src/graph/workflow.py) and of the four  *)
(* stage agents it drives (src/agents/*.py).                               *)
(*                                                                         *)
(* Strings are modelled by what the code looks at: their length, their     *)
(* JSON type and, for LLM responses, how the JSON object is framed in the  *)
(* raw text.  The LLM and the tools are external: every call draws its     *)
(* outcome (a value or an exception) from a finite set.                    *)
(***************************************************************************)
EXTENDS Integers, Sequences, FiniteSets, TLC

\* ------------------------------------------------------------------------
\* Program constants
\* ------------------------------------------------------------------------
MAX_VERIFICATION_RETRIES == 2

\* len(findings_text) < 50 in execute_subtask, len(content) > 50 in the
\* deterministic report
MIN_FINDINGS_LEN == 50

\* str(content)[:400] for snippets and for the raw-content concatenation
SNIPPET_LEN == 400

\* ------------------------------------------------------------------------
\* Bounds of the model
\* ------------------------------------------------------------------------
MaxSubtasks == 2

\* ------------------------------------------------------------------------
\* Values
\* ------------------------------------------------------------------------
None == [tag |-> "None"]

\* len(query) of the one query of a run
QueryLen == 12

Min(a, b) == IF a < b THEN a ELSE b

RECURSIVE SumSeq(_)
SumSeq(s) == IF s = <<>> THEN 0 ELSE Head(s) + SumSeq(Tail(s))

RECURSIVE Flatten(_)
Flatten(ss) == IF ss = <<>> THEN <<>> ELSE Head(ss) \o Flatten(Tail(ss))

Count(s, x) == Cardinality({i \in 1..Len(s) : s[i] = x})

IsPrefix(s, t) == Len(s) <= Len(t) /\ SubSeq(t, 1, Len(s)) = s

\* ------------------------------------------------------------------------
\* LLM responses.  A call either raises or returns raw text; the text is
\* described by where its JSON object sits and by what that object holds.
\*   bare         the whole text is the JSON value
\*   fence_start  the text starts with a ``` block holding the value
\*   prose_bare   prose, then the JSON object
\*   prose_fence  prose, then a ``` block holding the object
\*   no_json      prose holding no JSON object at all
\* ------------------------------------------------------------------------
LLMException == [kind |-> "exception"]

LLMText(f, p) == [kind |-> "text", framing |-> f, payload |-> p]

NoPayload == [type |-> "none"]

\* where and how the JSON value is written in the text: alone or in a
\* fenced block at the start, or after some prose; on one line
JsonFramings == {"bare", "fence_start", "prose_bare", "prose_fence"}

\* the same value laid out over several lines (newlines between tokens)
MultilineFramings == {"bare_multiline", "fence_start_multiline"}

\* variant: the JSON value is looked for anywhere in the text
json_loads_at_start_Anywhere(resp) ==
    IF /\ resp.kind = "text"
       /\ resp.framing \in JsonFramings \cup MultilineFramings
    THEN [ok |-> TRUE, value |-> resp.payload]
    ELSE [ok |-> FALSE, value |-> NoPayload]

\* content.strip(); if content.startswith("```"): content between the first
\* two fences, minus a leading "json"; json.loads(content).  Used by the
\* Planner and the Verifier: only text that IS the JSON value, or that
\* starts with the fence, parses; its layout does not matter.
json_loads_at_start(resp) ==
    IF /\ resp.kind = "text"
       /\ resp.framing \in {"bare", "fence_start"} \cup MultilineFramings
    THEN [ok |-> TRUE, value |-> resp.payload]
    ELSE [ok |-> FALSE, value |-> NoPayload]

\* ------------------------------------------------------------------------
\* Planner
\* ------------------------------------------------------------------------
\* ResearchPlan(**plan_dict): the payload validates iff it is an object
\* with the required fields; subtasks may be any list, the empty one too.
ResearchPlan_valid(p) == p.type = "plan"

\* len(description) of a subtask
DescLen == 20

\* a subtask of the plans the LLM writes: tavily is called, calculator is
\* skipped, arxiv is beyond the first two entries
PlanToolsNeeded == <<"tavily", "calculator", "arxiv">>

Subtask(i, d, tools) == [id |-> i, description |-> d, tools_needed |-> tools]

\* plan.model_dump() of a validated plan with n subtasks
MakePlan(n) ==
    [tag |-> "plan", subtasks |-> [i \in 1..n |-> Subtask(i, DescLen, PlanToolsNeeded)]]

\* variant: a response that does not parse gets a made-up plan
PlannerAgent_plan_DefaultPlan(resp) ==
    LET parsed == json_loads_at_start(resp) IN
    IF resp.kind = "exception"
    THEN [success |-> FALSE, error |-> "Planning failed", plan |-> None]
    ELSE IF ~parsed.ok
    THEN [success |-> TRUE, error |-> "", plan |-> MakePlan(1)]
    ELSE IF ~ResearchPlan_valid(parsed.value)
    THEN [success |-> FALSE, error |-> "Planning failed", plan |-> None]
    ELSE [success |-> TRUE, error |-> "", plan |-> MakePlan(parsed.value.nsub)]

PlannerAgent_plan(resp) ==
    LET parsed == json_loads_at_start(resp) IN
    IF resp.kind = "exception"
    THEN [success |-> FALSE, error |-> "Planning failed", plan |-> None]
    ELSE IF ~parsed.ok
    THEN [success |-> FALSE, error |-> "Failed to parse plan", plan |-> None]
    ELSE IF ~ResearchPlan_valid(parsed.value)
    THEN [success |-> FALSE, error |-> "Planning failed", plan |-> None]
    ELSE [success |-> TRUE, error |-> "", plan |-> MakePlan(parsed.value.nsub)]

PlannerPayloads ==
    {[type |-> "plan", nsub |-> n] : n \in 0..MaxSubtasks}
        \cup {[type |-> "bad_schema"], [type |-> "not_object"]}

PlannerResponses ==
    {LLMException, LLMText("no_json", NoPayload)}
        \cup {LLMText(f, p) : f \in JsonFramings, p \in PlannerPayloads}

\* ------------------------------------------------------------------------
\* Verifier
\* ------------------------------------------------------------------------
\* confidence_score is kept in tenths: 7 is 0.7
DEFAULT_CONFIDENCE == 7

\* variant: confidence_score is a plain float, no Field(ge=0, le=1)
VerificationResult_valid_NoRange(p) ==
    /\ p.type = "verification"
    /\ p.has_is_complete

\* VerificationResult(**result_dict): is_complete, is_accurate,
\* confidence_score (0 <= s <= 1) and approved are required
VerificationResult_valid(p) ==
    /\ p.type = "verification"
    /\ p.has_is_complete
    /\ p.confidence_score >= 0
    /\ p.confidence_score <= 10

\* the record of the except branch
AutoApproved ==
    [is_complete |-> TRUE, is_accurate |-> TRUE, confidence_score |-> DEFAULT_CONFIDENCE,
     approved |-> TRUE, reasoning |-> "Auto-approved due to verification error"]

\* variant: the source count and the findings digest are built before the
\* try block
VerifierAgent_verify_Unguarded(plan_ok, findings_ok, resp) ==
    LET parsed == json_loads_at_start(resp) IN
    IF ~findings_ok
    THEN [raised |-> TRUE, success |-> FALSE, verification |-> None]
    ELSE IF /\ plan_ok
            /\ resp.kind = "text"
            /\ parsed.ok
            /\ VerificationResult_valid(parsed.value)
    THEN [raised |-> FALSE, success |-> TRUE,
          verification |->
              [is_complete |-> TRUE, is_accurate |-> parsed.value.is_accurate,
               confidence_score |-> parsed.value.confidence_score,
               approved |-> parsed.value.approved, reasoning |-> "absent"]]
    ELSE [raised |-> FALSE, success |-> TRUE, verification |-> AutoApproved]

\* variant: when validation fails the except branch keeps the approved
\* value the LLM gave
VerifierAgent_verify_KeepsVerdict(plan_ok, findings_ok, resp) ==
    LET parsed == json_loads_at_start(resp) IN
    IF /\ findings_ok
       /\ plan_ok
       /\ resp.kind = "text"
       /\ parsed.ok
       /\ VerificationResult_valid(parsed.value)
    THEN [raised |-> FALSE, success |-> TRUE,
          verification |->
              [is_complete |-> TRUE, is_accurate |-> parsed.value.is_accurate,
               confidence_score |-> parsed.value.confidence_score,
               approved |-> parsed.value.approved, reasoning |-> "absent"]]
    ELSE IF resp.kind = "text" /\ parsed.ok /\ parsed.value.type = "verification"
    THEN [raised |-> FALSE, success |-> TRUE,
          verification |-> [AutoApproved EXCEPT !.approved = parsed.value.approved]]
    ELSE [raised |-> FALSE, success |-> TRUE, verification |-> AutoApproved]

\* VerifierAgent.verify: the whole body is inside try / except Exception.
\* findings_ok = FALSE: iterating the findings or f.get raises;
\* plan_ok = FALSE: json.dumps(plan) raises.
VerifierAgent_verify(plan_ok, findings_ok, resp) ==
    LET parsed == json_loads_at_start(resp) IN
    IF /\ findings_ok
       /\ plan_ok
       /\ resp.kind = "text"
       /\ parsed.ok
       /\ VerificationResult_valid(parsed.value)
    THEN [raised |-> FALSE, success |-> TRUE,
          verification |->
              [is_complete |-> TRUE, is_accurate |-> parsed.value.is_accurate,
               confidence_score |-> parsed.value.confidence_score,
               approved |-> parsed.value.approved, reasoning |-> "absent"]]
    ELSE [raised |-> FALSE, success |-> TRUE, verification |-> AutoApproved]

VerificationPayload(a, s, c) ==
    [type |-> "verification", approved |-> a, confidence_score |-> s,
     has_is_complete |-> c, is_accurate |-> TRUE]

\* 15 is 1.5: out of range
VerifierPayloads ==
    {VerificationPayload(a, 9, TRUE) : a \in BOOLEAN}
        \cup {VerificationPayload(FALSE, 15, TRUE), VerificationPayload(FALSE, 9, FALSE),
              VerificationPayload(TRUE, 9, FALSE),
              [type |-> "not_object"]}

VerifierResponses ==
    {LLMException, LLMText("no_json", NoPayload)}
        \cup {LLMText(f, p) : f \in JsonFramings, p \in VerifierPayloads}

\* ------------------------------------------------------------------------
\* Executor: tool phase
\* ------------------------------------------------------------------------
Absent == -1

\* the names of self.tools
ToolNames == {"tavily", "arxiv", "wikipedia", "calculator", "python"}

\* r.get("content", r.get("abstract", r.get("summary", ""))): the length
\* of the value of the first key that is present
ContentOf(r) ==
    IF r.content # Absent THEN r.content
    ELSE IF r.abstract # Absent THEN r.abstract
    ELSE IF r.summary # Absent THEN r.summary
    ELSE 0

SourceInfo(r) == [source_type |-> "web", snippet |-> Min(ContentOf(r), SNIPPET_LEN)]

RECURSIVE KeepList(_)

\* variant: error records are kept like any other entry
KeepList_KeepsErrors(entries) ==
    [results |-> entries,
     sources |-> [i \in 1..Len(entries) |-> SourceInfo(entries[i])]]

\* the loop over a list result: an entry is kept when it is a dict without
\* "error"; it is appended to all_results before its SourceInfo is built,
\* and a SourceInfo that fails validation raises out of the loop
KeepList(entries) ==
    IF entries = <<>> THEN [results |-> <<>>, sources |-> <<>>]
    ELSE LET r == Head(entries)
             rest == KeepList(Tail(entries)) IN
         IF ~r.is_dict \/ r.error THEN rest
         ELSE IF ~r.source_ok THEN [results |-> <<r>>, sources |-> <<>>]
         ELSE [results |-> <<r>> \o rest.results,
               sources |-> <<SourceInfo(r)>> \o rest.sources]

\* variant: a name that is not in self.tools falls back to a search tool
InvokeTool_UnknownSearches(tool_name, outcome) ==
    IF tool_name \in {"calculator", "python"}
    THEN [called |-> FALSE, results |-> <<>>, sources |-> <<>>]
    ELSE IF outcome.kind = "list"
    THEN [called |-> TRUE] @@ KeepList(outcome.entries)
    ELSE IF outcome.kind = "dict" /\ ~outcome.entry.error
    THEN [called |-> TRUE, results |-> <<outcome.entry>>, sources |-> <<>>]
    ELSE [called |-> TRUE, results |-> <<>>, sources |-> <<>>]

\* variant: a single-map result also gets a SourceInfo
InvokeTool_DictSource(tool_name, outcome) ==
    IF tool_name \notin ToolNames \/ tool_name \in {"calculator", "python"}
    THEN [called |-> FALSE, results |-> <<>>, sources |-> <<>>]
    ELSE IF outcome.kind = "list"
    THEN [called |-> TRUE] @@ KeepList(outcome.entries)
    ELSE IF outcome.kind = "dict" /\ ~outcome.entry.error
    THEN [called |-> TRUE, results |-> <<outcome.entry>>,
          sources |-> <<SourceInfo(outcome.entry)>>]
    ELSE [called |-> TRUE, results |-> <<>>, sources |-> <<>>]

\* variant: calculator and python are called like the search tools
InvokeTool_NoSkip(tool_name, outcome) ==
    IF tool_name \notin ToolNames
    THEN [called |-> FALSE, results |-> <<>>, sources |-> <<>>]
    ELSE IF outcome.kind = "list"
    THEN [called |-> TRUE] @@ KeepList(outcome.entries)
    ELSE IF outcome.kind = "dict" /\ ~outcome.entry.error
    THEN [called |-> TRUE, results |-> <<outcome.entry>>, sources |-> <<>>]
    ELSE [called |-> TRUE, results |-> <<>>, sources |-> <<>>]

\* one iteration of "for tool_name in tools_to_try[:2]"
InvokeTool(tool_name, outcome) ==
    IF tool_name \notin ToolNames \/ tool_name \in {"calculator", "python"}
    THEN [called |-> FALSE, results |-> <<>>, sources |-> <<>>]
    ELSE IF outcome.kind = "list"
    THEN [called |-> TRUE] @@ KeepList(outcome.entries)
    ELSE IF outcome.kind = "dict" /\ ~outcome.entry.error
    THEN [called |-> TRUE, results |-> <<outcome.entry>>, sources |-> <<>>]
    ELSE [called |-> TRUE, results |-> <<>>, sources |-> <<>>]

\* a tool call that raised, or that returned nothing but error records
ToolFailed(outcome) ==
    \/ outcome.kind = "raise"
    \/ outcome.kind = "dict" /\ outcome.entry.error
    \/ /\ outcome.kind = "list"
       /\ outcome.entries # <<>>
       /\ \A i \in 1..Len(outcome.entries) : outcome.entries[i].error

\* variant: the limit of 2 counts the tools that are called, not the
\* entries of tools_needed
InvokeTools_TwoCallable(subtask, outcomes) ==
    LET callable == {i \in 1..Len(subtask.tools_needed) :
                        InvokeTool(subtask.tools_needed[i], outcomes[i]).called}
        chosen == {i \in callable : Cardinality({j \in callable : j < i}) < 2}
        each == [i \in 1..Len(subtask.tools_needed) |->
                    InvokeTool(subtask.tools_needed[i], outcomes[i])]
    IN [all_results |-> Flatten([i \in 1..Len(each) |->
                                     IF i \in chosen THEN each[i].results ELSE <<>>]),
        sources |-> Flatten([i \in 1..Len(each) |->
                                 IF i \in chosen THEN each[i].sources ELSE <<>>]),
        calls |-> chosen]

\* variant: the try block encloses the loop, the first failure ends it
InvokeTools_AbortOnFailure(subtask, outcomes) ==
    LET tools_to_try == SubSeq(subtask.tools_needed, 1, Min(2, Len(subtask.tools_needed)))
        each == [i \in 1..Len(tools_to_try) |-> InvokeTool(tools_to_try[i], outcomes[i])]
        reached == {i \in 1..Len(each) :
                       \A j \in 1..(i - 1) : ~(each[j].called /\ ToolFailed(outcomes[j]))}
    IN [all_results |-> Flatten([i \in 1..Len(each) |->
                                     IF i \in reached THEN each[i].results ELSE <<>>]),
        sources |-> Flatten([i \in 1..Len(each) |->
                                 IF i \in reached THEN each[i].sources ELSE <<>>]),
        calls |-> {i \in reached : each[i].called}]

\* the tool loop of execute_subtask; outcomes[i] is what the i-th listed
\* tool does when it is called
InvokeTools(subtask, outcomes) ==
    LET tools_to_try == SubSeq(subtask.tools_needed, 1, Min(2, Len(subtask.tools_needed)))
        each == [i \in 1..Len(tools_to_try) |-> InvokeTool(tools_to_try[i], outcomes[i])]
    IN [all_results |-> Flatten([i \in 1..Len(each) |-> each[i].results]),
        sources |-> Flatten([i \in 1..Len(each) |-> each[i].sources]),
        calls |-> {i \in 1..Len(each) : each[i].called}]

Entry(err, c) ==
    [is_dict |-> TRUE, error |-> err, source_ok |-> TRUE,
     content |-> c, abstract |-> Absent, summary |-> Absent]

ToolRaises == [kind |-> "raise"]
ToolList(es) == [kind |-> "list", entries |-> es]
ToolDict(e) == [kind |-> "dict", entry |-> e]

\* ------------------------------------------------------------------------
\* Executor: LLM phase
\* ------------------------------------------------------------------------
\* _extract_json (executor and synthesizer): text.strip(), the first closed
\* ``` block if there is one, then the span from the first "{" to the last
\* "}" is sanitized and parsed; wherever the object sits it is found, and
\* text without a parseable value raises.  Sanitizing escapes the newlines
\* between the tokens of a value laid out over several lines, which then
\* does not parse (ExtractJsonText below, on the characters).
extract_json(resp) ==
    IF resp.kind = "text" /\ resp.framing \in JsonFramings
    THEN [ok |-> TRUE, value |-> resp.payload]
    ELSE [ok |-> FALSE, value |-> NoPayload]

\* A JSON value standing where a text is expected: its type, its len() and,
\* for a string, whether it holds a "." (for an array: an element ".").
Str(n) == [type |-> "str", len |-> n, dot |-> TRUE]
JsonArray(n, d) == [type |-> "array", len |-> n, dot |-> d]
JsonObject(n) == [type |-> "object", len |-> n, dot |-> FALSE]
JsonNumber == [type |-> "number", len |-> 0, dot |-> FALSE]

\* len("Research on " + ":\n\n") and of the generic sentence around
\* the description and the one-digit source count
RAW_PREFIX_LEN == 15
GENERIC_LEN == 36

\* f"Research on {query}:\n\n" plus, for each of the first 3 kept results
\* with a non-empty content, str(content)[:400] + "\n\n"
RawFindings(subtask, all_results) ==
    LET first3 == SubSeq(all_results, 1, Min(3, Len(all_results)))
    IN Str(RAW_PREFIX_LEN + subtask.description
           + SumSeq([i \in 1..Len(first3) |->
                 IF ContentOf(first3[i]) > 0
                 THEN Min(ContentOf(first3[i]), SNIPPET_LEN) + 2 ELSE 0]))

\* f"Explored {query}. Found {len(sources)} relevant sources."
GenericFindings(subtask, sources) == Str(GENERIC_LEN + subtask.description)

\* variant: the id is the default of subtask.get("id", 1)
Finding_DefaultId(subtask, text, tier, sources) ==
    [subtask_id |-> 1, findings |-> text, tier |-> tier,
     sources |-> sources, needs_more_research |-> FALSE]

Finding(subtask, text, tier, sources) ==
    [subtask_id |-> subtask.id, findings |-> text, tier |-> tier,
     sources |-> sources, needs_more_research |-> FALSE]

\* the try block raises when the LLM call raises, when _extract_json
\* raises, when the parsed value has no .get (not an object) and when
\* len(findings_text) is taken of a number
SynthesisRaises(resp) ==
    \/ ~extract_json(resp).ok
    \/ extract_json(resp).value.type # "summary"
    \/ extract_json(resp).value.findings.type = "number"

\* ExecutorAgent.execute_subtask.  tier names the branch that produced the
\* text: "llm", "raw_try" (raw-content concatenation inside the try block),
\* "raw_except" (the same in the except block) or "generic".
execute_subtask(subtask, outcomes, resp) ==
    LET tools == InvokeTools(subtask, outcomes)
        raw == RawFindings(subtask, tools.all_results)
        findings_text == extract_json(resp).value.findings
    IN IF SynthesisRaises(resp)
       THEN IF raw.len < MIN_FINDINGS_LEN
            THEN Finding(subtask, GenericFindings(subtask, tools.sources), "generic",
                         tools.sources)
            ELSE Finding(subtask, raw, "raw_except", tools.sources)
       ELSE IF findings_text.len = 0 \/ findings_text.len < MIN_FINDINGS_LEN
            THEN Finding(subtask, raw, "raw_try", tools.sources)
            ELSE Finding(subtask, findings_text, "llm", tools.sources)

\* findings['findings'][:200] in execute_plan: a JSON object cannot be
\* sliced, and the TypeError leaves execute_plan
SliceRaises(finding) ==
    finding.findings.len > 0 /\ finding.findings.type = "object"

\* variant: only the findings that have a source are appended
execute_plan_OnlySourced(plan, ins) ==
    LET n == Len(plan.subtasks)
        all == [i \in 1..n |-> execute_subtask(plan.subtasks[i], ins[i][1], ins[i][2])]
        bad == {i \in 1..n : SliceRaises(all[i])}
        first_bad == CHOOSE i \in bad : \A j \in bad : i <= j
    IN IF bad = {}
       THEN [raised |-> FALSE,
             all_findings |-> SelectSeq(all, LAMBDA f : f.sources # <<>>), started |-> n]
       ELSE [raised |-> TRUE, all_findings |-> <<>>, started |-> first_bad]

\* ExecutorAgent.execute_plan: the subtasks one after another; ins[i] is
\* the pair <<tool outcomes, LLM response>> that subtask i meets.
\* started: how many subtasks were begun (one callback each).
execute_plan(plan, ins) ==
    LET n == Len(plan.subtasks)
        all == [i \in 1..n |-> execute_subtask(plan.subtasks[i], ins[i][1], ins[i][2])]
        bad == {i \in 1..n : SliceRaises(all[i])}
        first_bad == CHOOSE i \in bad : \A j \in bad : i <= j
    IN IF bad = {}
       THEN [raised |-> FALSE, all_findings |-> all, started |-> n]
       ELSE [raised |-> TRUE, all_findings |-> <<>>, started |-> first_bad]

SummaryPayload(v) == [type |-> "summary", findings |-> v]

\* ------------------------------------------------------------------------
\* Synthesizer
\* ------------------------------------------------------------------------
\* lengths of the fixed texts of the deterministic report's introduction
\* and conclusion, around the query and a one-digit source count
INTRO_LEN == 231
CONCLUSION_LEN == 258

\* variant: the numbering starts again at 1 with every finding
AllSources_IndexPerFinding(fs) ==
    Flatten([i \in 1..Len(fs) |->
        [j \in 1..Len(fs[i].sources) |-> [index |-> j, source |-> fs[i].sources[j]]]])

\* all_sources: the sources of all findings, numbered from 1
AllSources(fs) ==
    LET flat == Flatten([i \in 1..Len(fs) |-> fs[i].sources])
    IN [i \in 1..Len(flat) |-> [index |-> i, source |-> flat[i]]]

\* The "sections" value of an LLM report object: a list of items (each a
\* dict or not, with the length of its content, Absent when it has none),
\* or a non-empty value that is no list (is_list = FALSE, a string say).
SectionList(items) == [is_list |-> TRUE, items |-> items]
NotAList == [is_list |-> FALSE, items |-> <<>>]

Section(c) == [is_dict |-> TRUE, content |-> c]

Truthy(sections) == ~sections.is_list \/ sections.items # <<>>

\* isinstance(section, dict) and section.get("content")
ValidSection(sec) == sec.is_dict /\ sec.content > 0

\* the object holds "sections" when its payload is a report; a value that
\* is no object has no .get and raises
ReportDict(resp) == extract_json(resp).ok /\ extract_json(resp).value.type = "report"

\* first attempt: the sections kept, <<>> when the attempt raises
FirstAttempt(resp) ==
    IF ReportDict(resp) /\ Truthy(extract_json(resp).value.sections)
    THEN SelectSeq(extract_json(resp).value.sections.items, ValidSection)
    ELSE <<>>

Report(origin, sections, is_list, fs) ==
    [tag |-> "report", origin |-> origin, sections |-> sections,
     sections_is_list |-> is_list, references |-> AllSources(fs)]

\* content.split('.') if '.' in content else content[:60], for the
\* findings with len(content) > 50: an array holding "." has no split,
\* an object cannot be sliced
HeadingRaises(f) ==
    /\ f.findings.len > MIN_FINDINGS_LEN
    /\ \/ f.findings.type = "array" /\ f.findings.dot
       \/ f.findings.type = "object"

\* variant: every finding gets a section, whatever its length
FallbackSections_AllFindings(fs) ==
    <<[is_dict |-> TRUE, heading |-> "Introduction", content |-> INTRO_LEN + QueryLen]>>
       \o [i \in 1..Len(fs) |->
              [is_dict |-> TRUE, heading |-> "Research Findings",
               content |-> fs[i].findings.len]]
       \o <<[is_dict |-> TRUE, heading |-> "Conclusion",
             content |-> CONCLUSION_LEN + QueryLen]>>

\* the deterministic report: introduction, one section for each finding
\* with len(content) > 50, conclusion
FallbackSections(fs) ==
    LET kept == SelectSeq(fs, LAMBDA f : f.findings.len > MIN_FINDINGS_LEN)
    IN <<[is_dict |-> TRUE, heading |-> "Introduction", content |-> INTRO_LEN + QueryLen]>>
       \o [i \in 1..Len(kept) |->
              [is_dict |-> TRUE, heading |-> "Research Findings",
               content |-> kept[i].findings.len]]
       \o <<[is_dict |-> TRUE, heading |-> "Conclusion",
             content |-> CONCLUSION_LEN + QueryLen]>>

LLMSections(items) ==
    [i \in 1..Len(items) |->
        [is_dict |-> items[i].is_dict, heading |-> "llm", content |-> items[i].content]]

\* variant: no deterministic report, failure is reported to the caller
synthesize_NoFallback(fs, resp1, resp2) ==
    IF FirstAttempt(resp1) # <<>>
    THEN [raised |-> FALSE, success |-> TRUE, failed |-> 0,
          report |-> Report("first", LLMSections(FirstAttempt(resp1)), TRUE, fs)]
    ELSE IF ReportDict(resp2) /\ Truthy(extract_json(resp2).value.sections)
    THEN [raised |-> FALSE, success |-> TRUE, failed |-> 1,
          report |-> Report("retry", LLMSections(extract_json(resp2).value.sections.items),
                            extract_json(resp2).value.sections.is_list, fs)]
    ELSE [raised |-> FALSE, success |-> FALSE, failed |-> 2, report |-> None]

\* SynthesizerAgent.synthesize: first attempt, retry, deterministic report.
\* The retry returns the LLM's sections as they are, unvalidated.
\* failed: how many LLM attempts gave no report.
synthesize(fs, resp1, resp2) ==
    IF FirstAttempt(resp1) # <<>>
    THEN [raised |-> FALSE, success |-> TRUE, failed |-> 0,
          report |-> Report("first", LLMSections(FirstAttempt(resp1)), TRUE, fs)]
    ELSE IF ReportDict(resp2) /\ Truthy(extract_json(resp2).value.sections)
    THEN [raised |-> FALSE, success |-> TRUE, failed |-> 1,
          report |-> Report("retry", LLMSections(extract_json(resp2).value.sections.items),
                            extract_json(resp2).value.sections.is_list, fs)]
    ELSE IF \E i \in 1..Len(fs) : HeadingRaises(fs[i])
    THEN [raised |-> TRUE, success |-> FALSE, failed |-> 2, report |-> None]
    ELSE [raised |-> FALSE, success |-> TRUE, failed |-> 2,
          report |-> Report("fallback", FallbackSections(fs), TRUE, fs)]

ReportPayload(sections) == [type |-> "report", sections |-> sections]

\* ------------------------------------------------------------------------
\* Workflow (src/graph/workflow.py)
\* ------------------------------------------------------------------------
VARIABLES
    node,           \* the graph node to run next; "END": run returned;
                    \* "raised": an exception left run
    query, plan, findings, verification, report,
    current_step, iteration, messages, errors,     \* ResearchState
    notified,       \* the step names passed to the callback, in order
    plan_resp,      \* history: the Planner's LLM response
    exec_passes,    \* history: number of completed or begun execute passes
    verdicts,       \* history: the approved value of each verify pass
    loop_backs,     \* history: number of verify -> execute transitions
    synth_failed,   \* history: LLM attempts of synthesize that gave no report
    verify_resp,    \* history: the Verifier's last LLM response, where recorded
    call            \* a direct call of one agent operation (no workflow)

vars == <<node, query, plan, findings, verification, report, current_step,
          iteration, messages, errors, notified, plan_resp, exec_passes,
          verdicts, loop_backs, synth_failed, verify_resp, call>>

state_vars == <<query, plan, findings, verification, report, current_step,
                iteration, messages, errors>>

history_vars == <<plan_resp, exec_passes, verdicts, loop_backs, synth_failed,
                  verify_resp>>

MSG_PLAN == "Research plan created"
MSG_VERIFIED == "Research verified"
MSG_MORE == "Need more research"
MSG_FORCED == "Max iterations reached, proceeding anyway"
MSG_REPORT == "Report generated successfully"
ERR_SYNTHESIS == "Synthesis failed"

MsgGathered(n) == "Gathered " \o ToString(n) \o " findings"

\* _should_continue
should_continue(step) ==
    IF step = "executing" THEN "execute"
    ELSE IF step = "verifying" THEN "verify"
    ELSE IF step = "synthesizing" THEN "synthesize"
    ELSE "END"

\* add_conditional_edges: the targets each node declares
Edges(from) ==
    IF from = "plan" THEN {"execute", "END"}
    ELSE IF from = "execute" THEN {"verify", "END"}
    ELSE IF from = "verify" THEN {"execute", "synthesize", "END"}
    ELSE {"END"}

\* the node that runs after `from` has set current_step to step; a route
\* the node did not declare is an error of the graph
NextNode(from, step) ==
    IF from = "synthesize" THEN "END"
    ELSE IF should_continue(step) \in Edges(from) THEN should_continue(step)
    ELSE "raised"

Repeat(x, n) == [i \in 1..n |-> x]

\* run(): the initial state handed to graph.invoke
Init ==
    /\ node = "plan"
    /\ query = QueryLen
    /\ plan = None
    /\ findings = <<>>
    /\ verification = None
    /\ report = None
    /\ current_step = "planning"
    /\ iteration = 0
    /\ messages = <<>>
    /\ errors = <<>>
    /\ notified = <<>>
    /\ plan_resp = None
    /\ exec_passes = 0
    /\ verdicts = <<>>
    /\ loop_backs = 0
    /\ synth_failed = 0
    /\ verify_resp = None
    /\ call = None

\* variant: the failure is logged by plan() and by the node
PlanOutcome_DoubleError(result, old_plan) ==
    IF result.success
    THEN [plan |-> result.plan, current_step |-> "executing",
          messages |-> <<MSG_PLAN>>, errors |-> <<>>]
    ELSE [plan |-> old_plan, current_step |-> "error",
          messages |-> <<>>, errors |-> <<result.error, "Planning failed">>]

\* the if / else of _plan_node
PlanOutcome(result, old_plan) ==
    IF result.success
    THEN [plan |-> result.plan, current_step |-> "executing",
          messages |-> <<MSG_PLAN>>, errors |-> <<>>]
    ELSE [plan |-> old_plan, current_step |-> "error",
          messages |-> <<>>, errors |-> <<result.error>>]

\* _plan_node, the Planner's LLM answering with one of Responses
plan_step(Responses) ==
    /\ node = "plan"
    /\ \E resp \in Responses :
          LET out == PlanOutcome(PlannerAgent_plan(resp), plan) IN
          /\ plan' = out.plan
          /\ current_step' = out.current_step
          /\ messages' = messages \o out.messages
          /\ errors' = errors \o out.errors
          /\ notified' = notified \o <<"planning", "planning">>
          /\ plan_resp' = resp
          /\ node' = NextNode("plan", out.current_step)
    /\ UNCHANGED <<query, findings, verification, report, iteration,
                   exec_passes, verdicts, loop_backs, synth_failed,
                   verify_resp, call>>

plan_node == plan_step(PlannerResponses)

\* what one subtask can meet in a run: <<outcome of each listed tool, LLM
\* response>>
ToolError == ToolList(<<Entry(TRUE, Absent)>>)
ToolOk == ToolList(<<Entry(FALSE, 500)>>)

ExecInputs ==
    { <<Repeat(ToolOk, 3), LLMText("prose_fence", SummaryPayload(Str(60)))>>,
      <<Repeat(ToolRaises, 3), LLMException>>,
      <<Repeat(ToolOk, 3), LLMText("no_json", NoPayload)>>,
      <<Repeat(ToolOk, 3), LLMText("bare", SummaryPayload(JsonArray(51, TRUE)))>>,
      <<Repeat(ToolError, 3), LLMText("bare", SummaryPayload(JsonObject(50)))>> }

\* variant: the findings of the pass replace the ones gathered before
execute_step_Replaces(Inputs) ==
    /\ node = "execute"
    /\ \E ins \in [1..Len(plan.subtasks) -> Inputs] :
          LET r == execute_plan(plan, ins) IN
          IF r.raised
          THEN /\ node' = "raised"
               /\ notified' = notified \o Repeat("executing", 1 + r.started)
               /\ UNCHANGED <<findings, current_step, messages>>
          ELSE /\ findings' = r.all_findings
               /\ current_step' = "verifying"
               /\ messages' = Append(messages, MsgGathered(Len(r.all_findings)))
               /\ notified' = notified \o Repeat("executing", 1 + r.started + 1)
               /\ node' = NextNode("execute", "verifying")
    /\ exec_passes' = exec_passes + 1
    /\ UNCHANGED <<query, plan, verification, report, iteration, errors,
                   plan_resp, verdicts, loop_backs, synth_failed,
                   verify_resp, call>>

\* variant: a new pass discards the verdict of the pass before
execute_step_ClearsVerification(Inputs) ==
    /\ node = "execute"
    /\ \E ins \in [1..Len(plan.subtasks) -> Inputs] :
          LET r == execute_plan(plan, ins) IN
          IF r.raised
          THEN /\ node' = "raised"
               /\ notified' = notified \o Repeat("executing", 1 + r.started)
               /\ UNCHANGED <<findings, current_step, messages>>
          ELSE /\ findings' = findings \o r.all_findings
               /\ current_step' = "verifying"
               /\ messages' = Append(messages, MsgGathered(Len(r.all_findings)))
               /\ notified' = notified \o Repeat("executing", 1 + r.started + 1)
               /\ node' = NextNode("execute", "verifying")
    /\ exec_passes' = exec_passes + 1
    /\ verification' = None
    /\ UNCHANGED <<query, plan, report, iteration, errors,
                   plan_resp, verdicts, loop_backs, synth_failed,
                   verify_resp, call>>

\* _execute_node, each subtask meeting one of Inputs; an exception of
\* execute_plan leaves the node before the state is touched
execute_step(Inputs) ==
    /\ node = "execute"
    /\ \E ins \in [1..Len(plan.subtasks) -> Inputs] :
          LET r == execute_plan(plan, ins) IN
          IF r.raised
          THEN /\ node' = "raised"
               /\ notified' = notified \o Repeat("executing", 1 + r.started)
               /\ UNCHANGED <<findings, current_step, messages>>
          ELSE /\ findings' = findings \o r.all_findings
               /\ current_step' = "verifying"
               /\ messages' = Append(messages, MsgGathered(Len(r.all_findings)))
               /\ notified' = notified \o Repeat("executing", 1 + r.started + 1)
               /\ node' = NextNode("execute", "verifying")
    /\ exec_passes' = exec_passes + 1
    /\ UNCHANGED <<query, plan, verification, report, iteration, errors,
                   plan_resp, verdicts, loop_backs, synth_failed,
                   verify_resp, call>>

execute_node == execute_step(ExecInputs)

\* variants of VerifyOutcome with one slip each
VerifyOutcome_LoopsOnceMore(it, v) ==
    IF v.approved
    THEN [iteration |-> it, current_step |-> "synthesizing", message |-> MSG_VERIFIED]
    ELSE IF it + 1 <= MAX_VERIFICATION_RETRIES
    THEN [iteration |-> it + 1, current_step |-> "executing", message |-> MSG_MORE]
    ELSE [iteration |-> it + 1, current_step |-> "synthesizing", message |-> MSG_FORCED]

VerifyOutcome_SilentForce(it, v) ==
    IF v.approved
    THEN [iteration |-> it, current_step |-> "synthesizing", message |-> MSG_VERIFIED]
    ELSE IF it + 1 < MAX_VERIFICATION_RETRIES
    THEN [iteration |-> it + 1, current_step |-> "executing", message |-> MSG_MORE]
    ELSE [iteration |-> it + 1, current_step |-> "synthesizing", message |-> MSG_MORE]

VerifyOutcome_CountsApproved(it, v) ==
    IF v.approved
    THEN [iteration |-> it + 1, current_step |-> "synthesizing", message |-> MSG_VERIFIED]
    ELSE IF it + 1 < MAX_VERIFICATION_RETRIES
    THEN [iteration |-> it + 1, current_step |-> "executing", message |-> MSG_MORE]
    ELSE [iteration |-> it + 1, current_step |-> "synthesizing", message |-> MSG_FORCED]

VerifyOutcome_ResetsOnApprove(it, v) ==
    IF v.approved
    THEN [iteration |-> 0, current_step |-> "synthesizing", message |-> MSG_VERIFIED]
    ELSE IF it + 1 < MAX_VERIFICATION_RETRIES
    THEN [iteration |-> it + 1, current_step |-> "executing", message |-> MSG_MORE]
    ELSE [iteration |-> it + 1, current_step |-> "synthesizing", message |-> MSG_FORCED]

VerifyOutcome_TestsBeforeIncrement(it, v) ==
    IF v.approved
    THEN [iteration |-> it, current_step |-> "synthesizing", message |-> MSG_VERIFIED]
    ELSE IF it < MAX_VERIFICATION_RETRIES
    THEN [iteration |-> it + 1, current_step |-> "executing", message |-> MSG_MORE]
    ELSE [iteration |-> it + 1, current_step |-> "synthesizing", message |-> MSG_FORCED]

\* the if / else of _verify_node on the verification record
VerifyOutcome(it, v) ==
    IF v.approved
    THEN [iteration |-> it, current_step |-> "synthesizing", message |-> MSG_VERIFIED]
    ELSE IF it + 1 < MAX_VERIFICATION_RETRIES
    THEN [iteration |-> it + 1, current_step |-> "executing", message |-> MSG_MORE]
    ELSE [iteration |-> it + 1, current_step |-> "synthesizing", message |-> MSG_FORCED]

\* _verify_node, the Verifier's LLM answering with one of Responses; the
\* response is kept in verify_resp when record holds
verify_step_recording(Responses, record) ==
    /\ node = "verify"
    /\ \E resp \in Responses :
          LET result == VerifierAgent_verify(TRUE, TRUE, resp)
              out == VerifyOutcome(iteration, result.verification) IN
          /\ verify_resp' = IF record THEN resp ELSE verify_resp
          /\ IF result.raised
             THEN /\ node' = "raised"
                  /\ notified' = Append(notified, "verifying")
                  /\ UNCHANGED <<verification, iteration, current_step, messages,
                                 verdicts, loop_backs>>
             ELSE /\ verification' = result.verification
                  /\ iteration' = out.iteration
                  /\ current_step' = out.current_step
                  /\ messages' = Append(messages, out.message)
                  /\ notified' = notified \o <<"verifying", "verifying">>
                  /\ verdicts' = Append(verdicts, result.verification.approved)
                  /\ node' = NextNode("verify", out.current_step)
                  /\ loop_backs' = IF node' = "execute" THEN loop_backs + 1 ELSE loop_backs
    /\ UNCHANGED <<query, plan, findings, report, errors, plan_resp, exec_passes,
                   synth_failed, call>>

verify_step(Responses) == verify_step_recording(Responses, FALSE)

verify_node == verify_step(VerifierResponses)

\* the LLM responses a synthesize call can meet
SynthResponses ==
    { LLMException,
      LLMText("prose_fence", ReportPayload(SectionList(Repeat(Section(300), 5)))),
      LLMText("bare", ReportPayload(SectionList(<<Section(0), Section(Absent)>>))),
      LLMText("bare", ReportPayload(NotAList)) }

\* variant: the success branch forgets to store the report
SynthesizeOutcome_NoReport(result, old_report) ==
    IF result.success
    THEN [report |-> old_report, current_step |-> "complete",
          messages |-> <<MSG_REPORT>>, errors |-> <<>>,
          notify |-> <<"synthesizing", "synthesizing">>]
    ELSE [report |-> old_report, current_step |-> "error",
          messages |-> <<>>, errors |-> <<ERR_SYNTHESIS>>,
          notify |-> <<"synthesizing">>]

\* variant: the last notification carries the new current_step
SynthesizeOutcome_NotifiesNewStep(result, old_report) ==
    IF result.success
    THEN [report |-> result.report, current_step |-> "complete",
          messages |-> <<MSG_REPORT>>, errors |-> <<>>,
          notify |-> <<"synthesizing", "complete">>]
    ELSE [report |-> old_report, current_step |-> "error",
          messages |-> <<>>, errors |-> <<ERR_SYNTHESIS>>,
          notify |-> <<"synthesizing">>]

\* the if / else of _synthesize_node
SynthesizeOutcome(result, old_report) ==
    IF result.success
    THEN [report |-> result.report, current_step |-> "complete",
          messages |-> <<MSG_REPORT>>, errors |-> <<>>,
          notify |-> <<"synthesizing", "synthesizing">>]
    ELSE [report |-> old_report, current_step |-> "error",
          messages |-> <<>>, errors |-> <<ERR_SYNTHESIS>>,
          notify |-> <<"synthesizing">>]

\* _synthesize_node, the two LLM attempts answering with one of Responses
synthesize_step(Responses) ==
    /\ node = "synthesize"
    /\ \E resp1 \in Responses, resp2 \in Responses :
          LET result == synthesize(findings, resp1, resp2)
              out == SynthesizeOutcome(result, report) IN
          /\ synth_failed' = result.failed
          /\ IF result.raised
             THEN /\ node' = "raised"
                  /\ notified' = Append(notified, "synthesizing")
                  /\ UNCHANGED <<report, current_step, messages, errors>>
             ELSE /\ report' = out.report
                  /\ current_step' = out.current_step
                  /\ messages' = messages \o out.messages
                  /\ errors' = errors \o out.errors
                  /\ notified' = notified \o out.notify
                  /\ node' = NextNode("synthesize", out.current_step)
    /\ UNCHANGED <<query, plan, findings, verification, iteration,
                   plan_resp, exec_passes, verdicts, loop_backs,
                   verify_resp, call>>

synthesize_node == synthesize_step(SynthResponses)

Next == plan_node \/ execute_node \/ verify_node \/ synthesize_node

Spec == Init /\ [][Next]_vars

\* every LLM call and every tool call returns: a node that is entered
\* finishes
FairSpec == Spec /\ WF_vars(Next)

\* ------------------------------------------------------------------------
\* Runs in which every tool call returns an error record
\* ------------------------------------------------------------------------
ErrInputs ==
    { <<Repeat(ToolError, 3), r>> :
          r \in { LLMException, LLMText("no_json", NoPayload),
                  LLMText("prose_fence", SummaryPayload(Str(60))),
                  LLMText("bare", SummaryPayload(Str(10))),
                  LLMText("bare", SummaryPayload(JsonObject(50))) } }

execute_node_tools_fail == execute_step(ErrInputs)

NextErr == plan_node \/ execute_node_tools_fail \/ verify_node \/ synthesize_node

SpecErr == Init /\ [][NextErr]_vars

\* ------------------------------------------------------------------------
\* Runs in which every LLM response is valid JSON of the requested shape
\* ------------------------------------------------------------------------
\* "Create 5-6 sections"
REQUESTED_SECTIONS == 5

\* the response is the JSON value, alone or in a fenced block, on one line
\* or laid out over several
ValidFramings == {"bare", "fence_start"} \cup MultilineFramings

ValidPlannerResponses ==
    {LLMText(f, [type |-> "plan", nsub |-> n]) : f \in ValidFramings, n \in 1..MaxSubtasks}

ValidExecInputs ==
    {<<Repeat(ToolOk, 3), LLMText(f, SummaryPayload(Str(60)))>> : f \in ValidFramings}

ValidVerifierResponses ==
    {LLMText(f, VerificationPayload(a, 9, TRUE)) : f \in ValidFramings, a \in BOOLEAN}

ValidSynthResponses ==
    { LLMText(f, ReportPayload(SectionList(Repeat(Section(300), REQUESTED_SECTIONS)))) :
          f \in ValidFramings }

plan_node_valid == plan_step(ValidPlannerResponses)
execute_node_valid == execute_step(ValidExecInputs)
verify_node_valid == verify_step(ValidVerifierResponses)
synthesize_node_valid == synthesize_step(ValidSynthResponses)

NextValid ==
    plan_node_valid \/ execute_node_valid \/ verify_node_valid \/ synthesize_node_valid

SpecValid == Init /\ [][NextValid]_vars

\* ------------------------------------------------------------------------
\* Runs whose Verifier answers anything, the answer being recorded; the
\* other LLM responses and the tools as in SpecValid
\* ------------------------------------------------------------------------
verify_node_recorded == verify_step_recording(VerifierResponses, TRUE)

NextVerdict ==
    plan_node_valid \/ execute_node_valid \/ verify_node_recorded \/ synthesize_node_valid

SpecVerdict == Init /\ [][NextVerdict]_vars

\* ------------------------------------------------------------------------
\* Direct calls of VerifierAgent.verify, with any arguments
\* ------------------------------------------------------------------------
VerifyCalls ==
    { [op |-> "verify", plan_ok |-> p, findings_ok |-> f, resp |-> r,
       returned |-> FALSE, raised |-> FALSE, result |-> None] :
          p \in BOOLEAN, f \in BOOLEAN, r \in VerifierResponses }

InitVerify ==
    /\ node = "call"
    /\ query = QueryLen
    /\ plan = None
    /\ findings = <<>>
    /\ verification = None
    /\ report = None
    /\ current_step = "planning"
    /\ iteration = 0
    /\ messages = <<>>
    /\ errors = <<>>
    /\ notified = <<>>
    /\ plan_resp = None
    /\ exec_passes = 0
    /\ verdicts = <<>>
    /\ loop_backs = 0
    /\ synth_failed = 0
    /\ verify_resp = None
    /\ call \in VerifyCalls

verify_call ==
    /\ node = "call"
    /\ call.op = "verify"
    /\ ~call.returned /\ ~call.raised
    /\ LET result == VerifierAgent_verify(call.plan_ok, call.findings_ok, call.resp) IN
       call' = IF result.raised
               THEN [call EXCEPT !.raised = TRUE]
               ELSE [call EXCEPT !.returned = TRUE, !.result = result.verification]
    /\ UNCHANGED <<node, state_vars, notified, history_vars>>

NextVerify == verify_call

SpecVerify == InitVerify /\ [][NextVerify]_vars

\* ------------------------------------------------------------------------
\* Direct calls of ExecutorAgent.execute_subtask
\* ------------------------------------------------------------------------
\* no workflow is running: only `call` is in use
InitCall(calls) ==
    /\ node = "call"
    /\ query = QueryLen
    /\ plan = None
    /\ findings = <<>>
    /\ verification = None
    /\ report = None
    /\ current_step = "planning"
    /\ iteration = 0
    /\ messages = <<>>
    /\ errors = <<>>
    /\ notified = <<>>
    /\ plan_resp = None
    /\ exec_passes = 0
    /\ verdicts = <<>>
    /\ loop_backs = 0
    /\ synth_failed = 0
    /\ verify_resp = None
    /\ call \in calls

SearchTools == {"tavily", "arxiv", "wikipedia"}

\* len(description) of the subtasks tried
ExecDescriptions == {0, DescLen, 2 * DescLen}

\* tools_needed is a List[str] of any names and any length
ExecToolLists ==
    { <<>>, <<"tavily", "wikipedia">>, <<"calculator", "python">>, <<"foo", "bar">>,
      <<"tavily", "calculator", "arxiv">>, <<"foo", "arxiv">>,
      <<"arxiv", "tavily", "wikipedia">>, <<"python", "wikipedia">>, <<"baz">> }

\* an entry whose SourceInfo fails validation (a title that is no string)
EntryNoSource == [Entry(FALSE, 500) EXCEPT !.source_ok = FALSE]

\* an entry with "content": "" and an abstract of 30 characters
EntryEmptyContent == [Entry(FALSE, 0) EXCEPT !.abstract = 30]

\* what a tool does when it is called
ExecOutcomes ==
    { ToolOk, ToolError, ToolRaises, ToolList(<<>>),
      ToolList(<<Entry(FALSE, 10)>>),
      ToolList(<<Entry(TRUE, Absent), Entry(FALSE, 500)>>),
      ToolList(<<EntryNoSource, Entry(FALSE, 500)>>),
      ToolList(<<EntryEmptyContent>>),
      ToolDict(Entry(FALSE, 30)), ToolDict(Entry(TRUE, Absent)) }

\* what the summarising LLM call does
ExecResponses ==
    {LLMException, LLMText("no_json", NoPayload), LLMText("bare", [type |-> "not_object"])}
        \cup { LLMText(f, SummaryPayload(v)) :
                  f \in {"bare", "prose_fence"},
                  v \in {Str(60), Str(10), Str(0), JsonNumber, JsonArray(51, TRUE),
                         JsonObject(50)} }

ExecCalls ==
    { [op |-> "execute_subtask", subtask |-> Subtask(1, d, t),
       outcomes |-> <<o1, o2, ToolOk>>, resp |-> r,
       returned |-> FALSE, raised |-> FALSE, tools |-> None, result |-> None] :
          d \in ExecDescriptions, t \in ExecToolLists,
          o1 \in ExecOutcomes, o2 \in ExecOutcomes, r \in ExecResponses }

InitExec == InitCall(ExecCalls)

\* tools: what the tool loop left behind (all_results, sources, the
\* positions of tools_needed that were called); result: the returned dict
execute_subtask_call ==
    /\ node = "call"
    /\ call.op = "execute_subtask"
    /\ ~call.returned /\ ~call.raised
    /\ call' = [call EXCEPT
                   !.returned = TRUE,
                   !.tools = InvokeTools(call.subtask, call.outcomes),
                   !.result = execute_subtask(call.subtask, call.outcomes, call.resp)]
    /\ UNCHANGED <<node, state_vars, notified, history_vars>>

NextExec == execute_subtask_call

SpecExec == InitExec /\ [][NextExec]_vars

\* ------------------------------------------------------------------------
\* Direct calls of ExecutorAgent.execute_plan, one loop iteration at a time
\* ------------------------------------------------------------------------
\* plans with the ids 1..n, and one whose ids the LLM chose otherwise
PlansTried ==
    {MakePlan(n) : n \in 0..MaxSubtasks}
        \cup {[tag |-> "plan",
               subtasks |-> <<Subtask(7, DescLen, PlanToolsNeeded),
                              Subtask(3, DescLen, PlanToolsNeeded)>>]}

PlanExecInputs == ExecInputs \cup ErrInputs

\* started: callbacks sent; all_findings: the list being built
PlanExecCalls ==
    { [op |-> "execute_plan", plan |-> p, ins |-> ins, started |-> 0,
       all_findings |-> <<>>, returned |-> FALSE, raised |-> FALSE, result |-> None] :
          p \in PlansTried, ins \in [1..MaxSubtasks -> PlanExecInputs] }

InitPlanExec == InitCall(PlanExecCalls)

PlanExecRunning ==
    node = "call" /\ call.op = "execute_plan" /\ ~call.returned /\ ~call.raised

\* the head of the loop body: the callback announces the next subtask
execute_plan_begin ==
    /\ PlanExecRunning
    /\ call.started = Len(call.all_findings)
    /\ call.started < Len(call.plan.subtasks)
    /\ call' = [call EXCEPT !.started = @ + 1]
    /\ UNCHANGED <<node, state_vars, notified, history_vars>>

\* the rest of the loop body: execute_subtask returns, its Finding is
\* appended, then the summary slice may raise
execute_plan_finish ==
    /\ PlanExecRunning
    /\ call.started = Len(call.all_findings) + 1
    /\ LET i == call.started
           f == execute_subtask(call.plan.subtasks[i], call.ins[i][1], call.ins[i][2]) IN
       call' = [call EXCEPT !.all_findings = Append(@, f), !.raised = SliceRaises(f)]
    /\ UNCHANGED <<node, state_vars, notified, history_vars>>

\* return all_findings
execute_plan_return ==
    /\ PlanExecRunning
    /\ call.started = Len(call.all_findings)
    /\ call.started = Len(call.plan.subtasks)
    /\ call' = [call EXCEPT !.returned = TRUE, !.result = call.all_findings]
    /\ UNCHANGED <<node, state_vars, notified, history_vars>>

NextPlanExec == execute_plan_begin \/ execute_plan_finish \/ execute_plan_return

SpecPlanExec == InitPlanExec /\ [][NextPlanExec]_vars

\* ------------------------------------------------------------------------
\* Direct calls of PlannerAgent.plan and VerifierAgent.verify
\* ------------------------------------------------------------------------
PlanCalls ==
    { [op |-> "plan", resp |-> r, returned |-> FALSE, raised |-> FALSE, result |-> None] :
          r \in PlannerResponses }

InitParse == InitCall(PlanCalls \cup VerifyCalls)

\* PlannerAgent.plan returns a dict on every path
plan_call ==
    /\ node = "call"
    /\ call.op = "plan"
    /\ ~call.returned /\ ~call.raised
    /\ call' = [call EXCEPT !.returned = TRUE, !.result = PlannerAgent_plan(call.resp)]
    /\ UNCHANGED <<node, state_vars, notified, history_vars>>

NextParse == plan_call \/ verify_call

SpecParse == InitParse /\ [][NextParse]_vars

\* ------------------------------------------------------------------------
\* _extract_json on the characters of a text (executor and synthesizer)
\* ------------------------------------------------------------------------
\* A text is a sequence of characters.  "Q" is the double quote, "BS" the
\* backslash, "FENCE" the three backticks, "J" the word json after them,
\* "SP" a space, "NL" "CR" "TAB" the raw newline, carriage return and tab,
\* "CTL" another control byte (0x01), the rest are letters.
Whitespace == {"SP", "NL", "CR", "TAB"}

At(t, i) == IF i \in 1..Len(t) THEN t[i] ELSE "EOF"

\* index of the first / last c in t, 0 when there is none
IndexOf(t, c) ==
    IF \E i \in 1..Len(t) : t[i] = c
    THEN CHOOSE i \in 1..Len(t) : t[i] = c /\ \A j \in 1..(i - 1) : t[j] # c
    ELSE 0

LastIndexOf(t, c) ==
    IF \E i \in 1..Len(t) : t[i] = c
    THEN CHOOSE i \in 1..Len(t) : t[i] = c /\ \A j \in (i + 1)..Len(t) : t[j] # c
    ELSE 0

\* the first position >= i that holds no whitespace
SkipWs(t, i) ==
    IF \E j \in i..Len(t) : t[j] \notin Whitespace
    THEN CHOOSE j \in i..Len(t) :
             t[j] \notin Whitespace /\ \A k \in i..(j - 1) : t[k] \in Whitespace
    ELSE Len(t) + 1

\* str.strip()
strip(t) ==
    LET a == SkipWs(t, 1)
        b == IF \E j \in 1..Len(t) : t[j] \notin Whitespace
             THEN CHOOSE j \in 1..Len(t) :
                      t[j] \notin Whitespace /\ \A k \in (j + 1)..Len(t) : t[k] \in Whitespace
             ELSE 0
    IN SubSeq(t, a, b)

\* re.findall(r'```(?:json)?\s*([\s\S]*?)```', text)[0]: what stands
\* between the first fence and the next one
FenceBlock(t) ==
    LET i == IndexOf(t, "FENCE")
        after == SubSeq(t, i + 1, Len(t))
        nolang == IF At(after, 1) = "J" THEN Tail(after) ELSE after
        body == SubSeq(nolang, SkipWs(nolang, 1), Len(nolang))
        j == IndexOf(body, "FENCE")
    IN IF i = 0 \/ j = 0
       THEN [found |-> FALSE, text |-> <<>>]
       ELSE [found |-> TRUE, text |-> SubSeq(body, 1, j - 1)]

\* _sanitize_json: every raw newline, carriage return and tab becomes the
\* two characters of its escape, wherever it stands; other control bytes
\* are removed
sanitize_json(t) ==
    Flatten([i \in 1..Len(t) |->
        IF t[i] = "NL" THEN <<"BS", "n">>
        ELSE IF t[i] = "CR" THEN <<"BS", "r">>
        ELSE IF t[i] = "TAB" THEN <<"BS", "t">>
        ELSE IF t[i] = "CTL" THEN <<>>
        ELSE <<t[i]>>])

Unescape(c) ==
    IF c = "n" THEN "NL" ELSE IF c = "r" THEN "CR" ELSE IF c = "t" THEN "TAB" ELSE c

\* the JSON string scanner from position i (after the opening quote):
\* escapes are decoded, a raw control character is an error when strict
RECURSIVE ScanString(_, _, _, _)
ScanString(t, i, acc, strict) ==
    IF i > Len(t) THEN [ok |-> FALSE, next |-> i, value |-> <<>>]
    ELSE IF t[i] = "Q" THEN [ok |-> TRUE, next |-> i + 1, value |-> acc]
    ELSE IF t[i] = "BS"
    THEN IF At(t, i + 1) \in {"n", "r", "t", "Q", "BS"}
         THEN ScanString(t, i + 2, Append(acc, Unescape(t[i + 1])), strict)
         ELSE [ok |-> FALSE, next |-> i, value |-> <<>>]
    ELSE IF t[i] \in {"NL", "CR", "TAB", "CTL"} /\ strict
    THEN [ok |-> FALSE, next |-> i, value |-> <<>>]
    ELSE ScanString(t, i + 1, Append(acc, t[i]), strict)

JsonError == [ok |-> FALSE, value |-> <<>>]

\* json.loads of the text of an object with one string member: whitespace
\* is allowed between the tokens, anything else there is an error
json_loads(t, strict) ==
    LET a == SkipWs(t, 1)
        b == SkipWs(t, a + 1)
        key == ScanString(t, b + 1, <<>>, strict)
        c == SkipWs(t, key.next)
        d == SkipWs(t, c + 1)
        val == ScanString(t, d + 1, <<>>, strict)
        e == SkipWs(t, val.next)
    IN IF At(t, a) # "{" \/ At(t, b) # "Q" THEN JsonError
       ELSE IF ~key.ok \/ At(t, c) # ":" \/ At(t, d) # "Q" THEN JsonError
       ELSE IF ~val.ok \/ At(t, e) # "}" \/ SkipWs(t, e + 1) <= Len(t) THEN JsonError
       ELSE [ok |-> TRUE, value |-> val.value]

\* variant: the candidate ends at the first '}', the end of the first object
ExtractJsonText_FirstObject(text) ==
    LET t0 == strip(text)
        block == FenceBlock(t0)
        t1 == IF block.found THEN strip(block.text) ELSE t0
        i == IndexOf(t1, "{")
        j == IndexOf(t1, "}")
        json_str == sanitize_json(SubSeq(t1, i, j))
    IN IF i > 0 /\ j > i
       THEN IF json_loads(json_str, TRUE).ok
            THEN json_loads(json_str, TRUE)
            ELSE json_loads(json_str, FALSE)
       ELSE json_loads(sanitize_json(t1), FALSE)

\* _extract_json: ok = FALSE when it raises, else the value of the member
ExtractJsonText(text) ==
    LET t0 == strip(text)
        block == FenceBlock(t0)
        t1 == IF block.found THEN strip(block.text) ELSE t0
        i == IndexOf(t1, "{")
        j == LastIndexOf(t1, "}")
        json_str == sanitize_json(SubSeq(t1, i, j))
    IN IF i > 0 /\ j > i
       THEN IF json_loads(json_str, TRUE).ok
            THEN json_loads(json_str, TRUE)
            ELSE json_loads(json_str, FALSE)
       ELSE json_loads(sanitize_json(t1), FALSE)

\* bounds: characters between two tokens, characters of the string value
MaxGap == 1
MaxStr == 2

SeqsUpTo(S, n) == UNION {[1..k -> S] : k \in 0..n}

\* a JSON object {"k": "<str>"} with gap between its tokens
ObjectText(gap, str) ==
    <<"{">> \o gap \o <<"Q", "k", "Q", ":">> \o gap \o <<"Q">> \o str \o <<"Q">> \o gap \o <<"}">>

\* the LLM's text: the object, in a fenced block or not, after prose or not
LLMTextOf(prose, fenced, gap, str) ==
    (IF prose THEN <<"x", "SP">> ELSE <<>>)
        \o (IF fenced
            THEN <<"FENCE", "J", "NL">> \o ObjectText(gap, str) \o <<"NL", "FENCE">>
            ELSE ObjectText(gap, str))

GapChars == {"SP", "NL", "CR", "TAB", "CTL"}

\* one character of a string value as the LLM wrote it: a letter, a raw
\* whitespace or control character, or the escape \n
StrItems == {<<"x">>, <<"NL">>, <<"CR">>, <<"TAB">>, <<"CTL">>, <<"BS", "n">>}

\* the string the object's author meant: whitespace as it is, the escape
\* decoded, other control bytes gone
Logical(items) ==
    Flatten([i \in 1..Len(items) |->
        IF items[i] = <<"BS", "n">> THEN <<"NL">>
        ELSE IF items[i] = <<"CTL">> THEN <<>>
        ELSE items[i]])

\* a second object, and a braced word that is no JSON
SecondObject == ObjectText(<<>>, <<"y">>)
BracedWord == <<"{", "x", "}">>

FencedText(t) == <<"FENCE", "J", "NL">> \o t \o <<"NL", "FENCE">>

\* what the text holds besides the object: nothing ("single"), a second
\* object after it, a second object after or before the fenced block, a
\* second fenced block, a fence that is never closed, a braced word before
\* or after the object
JsonShapes ==
    {"single", "two", "fence_then_object", "object_then_fence", "two_fences",
     "unclosed_fence", "brace_in_prose", "brace_after"}

TextOfShape(shape, prose, fenced, gap, str) ==
    LET obj == ObjectText(gap, str)
        body ==
            IF shape = "two"
            THEN (IF fenced THEN FencedText(obj \o <<"SP">> \o SecondObject)
                  ELSE obj \o <<"SP">> \o SecondObject)
            ELSE IF shape = "fence_then_object"
            THEN FencedText(obj) \o <<"SP">> \o SecondObject
            ELSE IF shape = "object_then_fence"
            THEN SecondObject \o <<"SP">> \o FencedText(obj)
            ELSE IF shape = "two_fences"
            THEN FencedText(obj) \o <<"SP">> \o FencedText(SecondObject)
            ELSE IF shape = "unclosed_fence"
            THEN <<"FENCE", "J", "NL">> \o obj
            ELSE IF shape = "brace_in_prose"
            THEN BracedWord \o <<"SP">> \o obj
            ELSE obj \o <<"SP">> \o BracedWord
    IN IF shape = "single"
       THEN LLMTextOf(prose, fenced, gap, str)
       ELSE (IF prose THEN <<"x", "SP">> ELSE <<>>) \o body

JsonCalls ==
    { [op |-> "extract_json", shape |-> sh, prose |-> p, fenced |-> f, gap |-> g,
       items |-> s, returned |-> FALSE, raised |-> FALSE, result |-> None] :
          sh \in JsonShapes, p \in BOOLEAN, f \in BOOLEAN,
          g \in SeqsUpTo(GapChars, MaxGap), s \in SeqsUpTo(StrItems, MaxStr) }

InitJson == InitCall(JsonCalls)

extract_json_call ==
    /\ node = "call"
    /\ call.op = "extract_json"
    /\ ~call.returned /\ ~call.raised
    /\ LET r == ExtractJsonText(TextOfShape(call.shape, call.prose, call.fenced, call.gap,
                                            Flatten(call.items))) IN
       call' = IF r.ok
               THEN [call EXCEPT !.returned = TRUE, !.result = r.value]
               ELSE [call EXCEPT !.raised = TRUE]
    /\ UNCHANGED <<node, state_vars, notified, history_vars>>

NextJson == extract_json_call

SpecJson == InitJson /\ [][NextJson]_vars

\* ------------------------------------------------------------------------
\* SynthesizerAgent.synthesize called directly, on findings whose sources
\* can be told apart
\* ------------------------------------------------------------------------
\* the source made of a tool entry with c characters of content
SourceOf(c) == SourceInfo(Entry(FALSE, c))

\* findings as execute_subtask returns them: with two sources, one, none,
\* and one whose text is an array (the deterministic report raises on it)
SynthFindings ==
    { Finding(Subtask(1, DescLen, PlanToolsNeeded), Str(60), "llm",
              <<SourceOf(100), SourceOf(200)>>),
      Finding(Subtask(2, DescLen, PlanToolsNeeded), Str(60), "llm", <<SourceOf(300)>>),
      Finding(Subtask(3, DescLen, PlanToolsNeeded), Str(GENERIC_LEN + DescLen), "generic", <<>>),
      Finding(Subtask(4, DescLen, PlanToolsNeeded), JsonArray(60, TRUE), "llm",
              <<SourceOf(500)>>) }

SynthCalls ==
    { [op |-> "synthesize", findings |-> fs, resp1 |-> r1, resp2 |-> r2,
       returned |-> FALSE, raised |-> FALSE, result |-> None] :
          fs \in SeqsUpTo(SynthFindings, MaxSubtasks),
          r1 \in SynthResponses, r2 \in SynthResponses }

InitSynth == InitCall(SynthCalls)

synthesize_call ==
    /\ node = "call"
    /\ call.op = "synthesize"
    /\ ~call.returned /\ ~call.raised
    /\ LET r == synthesize(call.findings, call.resp1, call.resp2) IN
       call' = IF r.raised
               THEN [call EXCEPT !.raised = TRUE]
               ELSE [call EXCEPT !.returned = TRUE, !.result = r.report]
    /\ UNCHANGED <<node, state_vars, notified, history_vars>>

NextSynth == synthesize_call

SpecSynth == InitSynth /\ [][NextSynth]_vars


\* ------------------------------------------------------------------------
\* Properties
\* ------------------------------------------------------------------------
Halted == node \in {"END", "raised"}

AllRejected == verdicts # <<>> /\ \A i \in 1..Len(verdicts) : ~verdicts[i]

Rejections == Cardinality({i \in 1..Len(verdicts) : ~verdicts[i]})

\* C1: whatever the verdicts, the execute stage is entered at most
\* MAX_VERIFICATION_RETRIES times in a run.
C1_ExecuteBounded == exec_passes <= MAX_VERIFICATION_RETRIES

C1_Witness ==
    /\ exec_passes = MAX_VERIFICATION_RETRIES
    /\ node = "synthesize"
    /\ verdicts = <<FALSE, TRUE>>

\* C2: when every verify pass returns approved = false, the run enters
\* synthesizing after exactly MAX_VERIFICATION_RETRIES execute passes, with
\* the last verdict still not approved and the forced-proceed entry in the
\* messages log exactly once.
C2_AllRejectedForcesSynthesis ==
    (AllRejected /\ current_step \in {"synthesizing", "complete"}) =>
        /\ exec_passes = MAX_VERIFICATION_RETRIES
        /\ Len(verdicts) = MAX_VERIFICATION_RETRIES
        /\ ~verification.approved
        /\ Count(messages, MSG_FORCED) = 1

C2_Witness ==
    /\ AllRejected
    /\ node = "synthesize"
    /\ messages[Len(messages)] = MSG_FORCED

\* C3: when a run halts, current_step is 'complete' or 'error'.
C3_HaltsCompleteOrError ==
    Halted => current_step \in {"complete", "error"}

\* C4: a verify step that approves moves to 'synthesizing' and leaves
\* iteration alone; one that does not approve adds exactly 1 to iteration
\* and moves to 'executing' when the new iteration is below
\* MAX_VERIFICATION_RETRIES and to 'synthesizing' otherwise.
C4_VerifyTransition ==
    [][(node = "verify" /\ node' # "raised") =>
          /\ current_step = "verifying"
          /\ verification'.approved =>
                /\ current_step' = "synthesizing"
                /\ iteration' = iteration
          /\ ~verification'.approved =>
                /\ iteration' = iteration + 1
                /\ iteration' < MAX_VERIFICATION_RETRIES => current_step' = "executing"
                /\ iteration' >= MAX_VERIFICATION_RETRIES => current_step' = "synthesizing"
          /\ current_step' \in {"executing", "synthesizing"}
          /\ node' = (IF current_step' = "executing" THEN "execute" ELSE "synthesize")
      ]_vars

C4_Witness ==
    /\ verdicts = <<FALSE, TRUE>>
    /\ current_step = "synthesizing"
    /\ iteration = 1

\* C5 as stated: iteration equals the number of verify -> execute
\* loop-backs taken so far.
C5_IterationCountsLoopBacks == iteration = loop_backs

\* C5 amended: iteration never decreases and equals the number of
\* not-approved verdicts so far; it equals the number of loop-backs except
\* after a forced proceed, where it is one more.
C5_IterationCountsRejections ==
    /\ [](/\ iteration = Rejections
          /\ loop_backs = Min(iteration, MAX_VERIFICATION_RETRIES - 1)
          /\ (iteration # loop_backs) =>
                (iteration = MAX_VERIFICATION_RETRIES
                 /\ current_step \in {"synthesizing", "complete"}))
    /\ [][iteration' >= iteration]_vars

C5_Witness ==
    /\ iteration = MAX_VERIFICATION_RETRIES
    /\ loop_backs = MAX_VERIFICATION_RETRIES - 1
    /\ current_step = "complete"

\* C6: a Planner response that is prose without any JSON object ends the
\* run in 'error' with a non-empty errors list and no report.
NoJsonObject(resp) == resp.kind = "text" /\ resp.framing = "no_json"

C6_ProsePlanEndsInError ==
    (plan_resp # None /\ NoJsonObject(plan_resp)) =>
        /\ node = "END"
        /\ current_step = "error"
        /\ errors # <<>>
        /\ report = None

C6_Witness ==
    /\ plan_resp # None
    /\ NoJsonObject(plan_resp)
    /\ node = "END"

\* C7: a run whose planning succeeded ends with a report and no error; a
\* run ends with no report and a populated errors list only when planning
\* failed.
C7_ReportWheneverPlanned ==
    Halted =>
        /\ plan # None => (report # None /\ errors = <<>>)
        /\ (report = None /\ errors # <<>>) => plan = None

\* C8: a state returned by run has either a report (with current_step
\* 'complete' and no error) or an error entry (with current_step 'error'
\* and no report), never both and never neither.
C8_ReportXorError ==
    node = "END" =>
        \/ /\ report # None
           /\ current_step = "complete"
           /\ errors = <<>>
        \/ /\ report = None
           /\ current_step = "error"
           /\ errors # <<>>

C8_Witness ==
    /\ node = "END"
    /\ report # None
    /\ exec_passes = 1
    /\ Len(messages) = 4

\* C9 as stated: a run whose synthesize stage failed (no LLM attempt gave a
\* report) ends in 'error' with 'Synthesis failed' in errors and no report.
C9_SynthesisFailureEndsInError ==
    (node = "END" /\ synth_failed = 2) =>
        /\ current_step = "error"
        /\ Count(errors, ERR_SYNTHESIS) = 1
        /\ report = None

\* C9 amended: 'error' is not reachable from the synthesizing step.
\* synthesize never reports failure: when the synthesize node returns, also
\* after both LLM attempts failed, the report is present and current_step
\* is 'complete'; 'Synthesis failed' is never in errors, and 'error' is
\* only reached from planning.
C9_SynthesisNeverEndsInError ==
    /\ Count(errors, ERR_SYNTHESIS) = 0
    /\ current_step = "error" => (plan = None /\ exec_passes = 0)
    /\ (node = "END" /\ plan # None) =>
          (current_step = "complete" /\ report # None)

C9_Witness ==
    /\ node = "END"
    /\ synth_failed = 2
    /\ report # None
    /\ report.origin = "fallback"

\* C10: verify never raises; it returns a record with approved set, and
\* when something failed inside (malformed plan or findings, an LLM
\* exception, text without JSON, JSON that fails validation) the record
\* has approved = true and confidence_score = 0.7.
InternalFailure(c) ==
    \/ ~c.plan_ok
    \/ ~c.findings_ok
    \/ c.resp.kind = "exception"
    \/ c.resp.framing = "no_json"
    \/ c.resp.payload.type = "not_object"
    \/ ~c.resp.payload.has_is_complete
    \/ c.resp.payload.confidence_score > 10

C10_VerifyNeverRaises ==
    /\ call # None => ~call.raised
    /\ (call # None /\ call.returned) =>
          /\ call.result.approved \in BOOLEAN
          /\ InternalFailure(call) =>
                /\ call.result.approved
                /\ call.result.confidence_score = DEFAULT_CONFIDENCE

C10_Witness ==
    /\ call # None
    /\ call.returned
    /\ ~call.findings_ok
    /\ call.resp.kind = "text"
    /\ call.resp.payload.type = "verification"
    /\ ~call.resp.payload.approved
    /\ call.result.approved

\* C11: every Report that synthesize returns has at least one section with
\* non-empty content.
C11_ReportHasContent ==
    report # None =>
        \E i \in 1..Len(report.sections) :
            report.sections[i].is_dict /\ report.sections[i].content > 0

\* C20: a plan that Planner.plan returned with success has at least one
\* subtask, and every execute pass adds at least one Finding.
C20_PlanHasSubtasks ==
    /\ plan # None => Len(plan.subtasks) >= 1
    /\ (plan # None /\ current_step \in {"verifying", "synthesizing", "complete"}) =>
          Len(findings) >= exec_passes

ExecReturned == call # None /\ call.op = "execute_subtask" /\ call.returned

\* C12: the findings text execute_subtask returns is never empty, and it is
\* shorter than MIN_FINDINGS_LEN only when it is the generic sentence.
C12_ShortOnlyWhenGeneric ==
    ExecReturned =>
        /\ call.result.findings.len > 0
        /\ call.result.findings.len < MIN_FINDINGS_LEN => call.result.tier = "generic"

\* C14: tools_needed with unknown names only: no tool is called, there are
\* no results and no sources, nothing is raised, and the Finding returned
\* has sources = [].
OnlyUnknownTools(subtask) ==
    /\ subtask.tools_needed # <<>>
    /\ \A i \in 1..Len(subtask.tools_needed) : subtask.tools_needed[i] \notin ToolNames

C14_UnknownToolsCallNothing ==
    (ExecReturned /\ OnlyUnknownTools(call.subtask)) =>
        /\ call.tools.calls = {}
        /\ call.tools.all_results = <<>>
        /\ call.tools.sources = <<>>
        /\ ~call.raised
        /\ call.result.sources = <<>>

C14_Witness ==
    /\ ExecReturned
    /\ call.subtask.tools_needed = <<"foo", "bar">>
    /\ call.outcomes[1] = ToolOk
    /\ call.result.sources = <<>>

\* C15: the tool loop never calls the calculator or the python executor,
\* whatever tools_needed lists: every tool called is tavily, arxiv or
\* wikipedia.
C15_OnlySearchToolsCalled ==
    ExecReturned =>
        \A i \in call.tools.calls : call.subtask.tools_needed[i] \in SearchTools

C15_Witness ==
    /\ ExecReturned
    /\ call.subtask.tools_needed = <<"tavily", "calculator", "arxiv">>
    /\ call.tools.calls = {1}

\* C16: a tool call that raises or returns an error record does not end
\* the subtask: the other selected tool is still called, the failing
\* tool adds no results and no sources, and a Finding is returned.
BothSearch(subtask) ==
    /\ Len(subtask.tools_needed) >= 2
    /\ subtask.tools_needed[1] \in SearchTools
    /\ subtask.tools_needed[2] \in SearchTools

C16_ToolFailureDoesNotAbort ==
    (ExecReturned /\ BothSearch(call.subtask)) =>
        /\ call.tools.calls = {1, 2}
        /\ ~call.raised
        /\ call.result.subtask_id = call.subtask.id
        /\ (ToolFailed(call.outcomes[1]) /\ ToolFailed(call.outcomes[2])) =>
              call.tools.all_results = <<>> /\ call.tools.sources = <<>>
        /\ (ToolFailed(call.outcomes[1]) /\ call.outcomes[2] = ToolOk) =>
              /\ call.tools.all_results = ToolOk.entries
              /\ Len(call.tools.sources) = 1
        /\ (call.outcomes[1] = ToolOk /\ ToolFailed(call.outcomes[2])) =>
              /\ call.tools.all_results = ToolOk.entries
              /\ Len(call.tools.sources) = 1

C16_Witness ==
    /\ ExecReturned
    /\ BothSearch(call.subtask)
    /\ call.outcomes[1] = ToolRaises
    /\ call.outcomes[2] = ToolOk
    /\ 2 \in call.tools.calls
    /\ Len(call.result.sources) = 1

JsonDone == call # None /\ call.op = "extract_json" /\ (call.returned \/ call.raised)

\* C17: for a text holding a valid JSON object in a fenced block, on one
\* line or on several, with or without raw whitespace characters in its
\* string value, _extract_json returns the value with the whitespace
\* restored and the other control bytes stripped.
C17_FencedObjectExtracted ==
    (JsonDone /\ call.shape = "single" /\ call.fenced) =>
        call.returned /\ call.result = Logical(call.items)

\* C18: when every LLM response is valid JSON of the requested shape, the
\* run ends "complete" with a report of at least REQUESTED_SECTIONS
\* sections and no errors.
C18_ValidJsonEndsComplete ==
    Halted =>
        /\ node = "END"
        /\ current_step = "complete"
        /\ report # None
        /\ Len(report.sections) >= REQUESTED_SECTIONS
        /\ errors = <<>>

\* the text is prose followed by a JSON value, bare or in a fenced block
ProseThenJson(resp) ==
    resp.kind = "text" /\ resp.framing \in {"prose_bare", "prose_fence"}

JsonAtStart(resp) ==
    resp.kind = "text" /\ resp.framing \in {"bare", "fence_start"}

PlanReturned == call # None /\ call.op = "plan" /\ call.returned

VerifyReturned ==
    call # None /\ call.op = "verify" /\ call.returned /\ call.plan_ok /\ call.findings_ok

StepNames == {"planning", "executing", "verifying", "synthesizing"}

\* C21: every notification carries one of the four step names, and every
\* node execution sends at least one notification.
C21_NotificationsNamedAndSent ==
    /\ [](\A i \in 1..Len(notified) : notified[i] \in StepNames)
    /\ [][Len(notified') > Len(notified) /\ IsPrefix(notified, notified')]_vars

C21_Witness ==
    /\ node = "END"
    /\ current_step = "complete"
    /\ StepNames = {notified[i] : i \in 1..Len(notified)}

\* C22: across every transition findings, messages and errors only grow at
\* the end: the old value is a prefix of the new one.
C22_AppendOnly ==
    [][/\ IsPrefix(findings, findings')
       /\ IsPrefix(messages, messages')
       /\ IsPrefix(errors, errors')]_vars

C22_Witness ==
    /\ exec_passes = 2
    /\ node = "END"
    /\ Len(findings) >= 2
    /\ findings[1] # findings[Len(findings)]
    /\ Len(messages) >= 5

\* C23: execute_plan returns one Finding per subtask, in subtask order,
\* the i-th with the id of the i-th subtask; a subtask is begun only when
\* the Findings of all subtasks before it are in the list.
C23_OneFindingPerSubtaskInOrder ==
    (call # None /\ call.op = "execute_plan") =>
        /\ call.started \in {Len(call.all_findings), Len(call.all_findings) + 1}
        /\ \A i \in 1..Len(call.all_findings) :
              call.all_findings[i].subtask_id = call.plan.subtasks[i].id
        /\ call.returned =>
              /\ Len(call.result) = Len(call.plan.subtasks)
              /\ call.result = call.all_findings
              /\ call.result = execute_plan(call.plan, call.ins).all_findings
        /\ call.raised => execute_plan(call.plan, call.ins).raised

C23_Witness ==
    /\ call # None /\ call.op = "execute_plan"
    /\ call.returned
    /\ Len(call.result) = 2
    /\ call.result[1].subtask_id = 7
    /\ call.result[2].subtask_id = 3

\* C24: synthesize makes at most two LLM attempts; a report built from
\* LLM output holds at least one valid section (non-empty content), and
\* the deterministic report is returned exactly when neither attempt gave
\* a valid section.
C24_LLMReportHasValidSection ==
    report # None =>
        /\ synth_failed \in 0..2
        /\ report.origin = "first" <=> synth_failed = 0
        /\ report.origin = "retry" <=> synth_failed = 1
        /\ report.origin \in {"first", "retry"} =>
              /\ report.sections_is_list
              /\ \E i \in 1..Len(report.sections) : ValidSection(report.sections[i])
        /\ report.origin = "fallback" <=> synth_failed = 2

\* C25: the findings text is chosen by an ordered three-tier chain: the
\* LLM text when extraction succeeds and it has MIN_FINDINGS_LEN characters
\* or more; else the raw-content concatenation; and whenever that is still
\* shorter than MIN_FINDINGS_LEN, on either path, the generic sentence.
C25_ThreeTierChain ==
    ExecReturned =>
        LET tools == InvokeTools(call.subtask, call.outcomes)
            raw == RawFindings(call.subtask, tools.all_results)
            llm_ok == /\ ~SynthesisRaises(call.resp)
                      /\ extract_json(call.resp).value.findings.len >= MIN_FINDINGS_LEN
        IN call.result.findings =
               IF llm_ok THEN extract_json(call.resp).value.findings
               ELSE IF raw.len >= MIN_FINDINGS_LEN THEN raw
               ELSE GenericFindings(call.subtask, tools.sources)

\* C26: per subtask at most 2 tools are called, and only the entries at
\* the first two positions of tools_needed, also when one of those is
\* skipped.
C26_OnlyFirstTwoPositions ==
    ExecReturned =>
        /\ call.tools.calls \subseteq {1, 2}
        /\ Cardinality(call.tools.calls) <= 2

C26_Witness ==
    /\ ExecReturned
    /\ call.subtask.tools_needed = <<"tavily", "calculator", "arxiv">>
    /\ call.outcomes[1] = ToolError
    /\ 3 \notin call.tools.calls
    /\ call.tools.all_results = <<>>

\* C28: entries with an "error" key are never kept and never give a
\* source; every source comes from a kept list entry, so there are never
\* more sources than kept results; a single-map result is kept without a
\* source.
DictKept(i) ==
    /\ i \in call.tools.calls
    /\ call.outcomes[i].kind = "dict"
    /\ ~call.outcomes[i].entry.error

C28_SourcesFromKeptEntries ==
    ExecReturned =>
        LET kept == call.tools.all_results
            srcs == call.tools.sources
            from_dicts == Cardinality({i \in 1..2 : DictKept(i)}) IN
        /\ \A i \in 1..Len(kept) : ~kept[i].error
        /\ Len(srcs) <= Len(kept) - from_dicts
        /\ \A i \in 1..Len(srcs) : \E j \in 1..Len(kept) : srcs[i] = SourceInfo(kept[j])
        /\ \A i \in 1..2 : DictKept(i) =>
              \E j \in 1..Len(kept) : kept[j] = call.outcomes[i].entry
        /\ call.result.sources = srcs

C28_Witness ==
    /\ ExecReturned
    /\ call.tools.calls = {1, 2}
    /\ call.outcomes[1] = ToolDict(Entry(FALSE, 30))
    /\ call.outcomes[2] = ToolList(<<Entry(TRUE, Absent), Entry(FALSE, 500)>>)
    /\ Len(call.tools.all_results) = 2
    /\ Len(call.result.sources) = 1

\* the first non-empty value among content, abstract and summary
FirstNonEmpty(r) ==
    IF r.content > 0 THEN r.content
    ELSE IF r.abstract > 0 THEN r.abstract
    ELSE IF r.summary > 0 THEN r.summary
    ELSE 0

PlanningFailed == plan_resp # None /\ ~PlannerAgent_plan(plan_resp).success

\* C27: after a planning failure the run returns at once: no execute,
\* verify or synthesize stage runs, and the state has no plan, no
\* findings, no verification, iteration 0 and exactly one error.
C27_PlanningFailureHalts ==
    PlanningFailed =>
        /\ node = "END"
        /\ current_step = "error"
        /\ exec_passes = 0 /\ verdicts = <<>> /\ synth_failed = 0
        /\ notified = <<"planning", "planning">>
        /\ plan = None
        /\ findings = <<>>
        /\ verification = None
        /\ report = None
        /\ iteration = 0
        /\ Len(errors) = 1

C27_Witness ==
    /\ PlanningFailed
    /\ plan_resp.kind = "text"
    /\ plan_resp.framing = "bare"
    /\ plan_resp.payload.type = "bad_schema"
    /\ node = "END"
    /\ errors = <<"Planning failed">>

DeterministicReport == report # None /\ report.origin = "fallback"

\* C30 as stated: the deterministic report has the introduction, then one
\* section per finding in finding order, then the conclusion:
\* len(findings) + 2 sections.
C30_OneSectionPerFinding ==
    DeterministicReport =>
        /\ Len(report.sections) = Len(findings) + 2
        /\ report.sections[1].heading = "Introduction"
        /\ report.sections[Len(report.sections)].heading = "Conclusion"
        /\ \A i \in 1..Len(findings) :
              report.sections[i + 1].content = findings[i].findings.len

\* C30, amended: the deterministic report has the introduction, then one
\* section for each finding whose text is longer than MIN_FINDINGS_LEN
\* characters, in finding order, then the conclusion; shorter findings
\* get no section, so the count is at most len(findings) + 2.
LongFindings == SelectSeq(findings, LAMBDA f : f.findings.len > MIN_FINDINGS_LEN)

C30_OneSectionPerLongFinding ==
    DeterministicReport =>
        /\ Len(report.sections) = Len(LongFindings) + 2
        /\ Len(report.sections) <= Len(findings) + 2
        /\ report.sections[1].heading = "Introduction"
        /\ report.sections[Len(report.sections)].heading = "Conclusion"
        /\ \A i \in 1..Len(LongFindings) :
              /\ report.sections[i + 1].heading = "Research Findings"
              /\ report.sections[i + 1].content = LongFindings[i].findings.len

C30_Witness ==
    /\ DeterministicReport
    /\ node = "END"
    /\ Len(findings) = 2
    /\ findings[1].findings.len <= MIN_FINDINGS_LEN
    /\ findings[2].findings.len > MIN_FINDINGS_LEN
    /\ Len(report.sections) = 3

\* C31: in every report synthesize returns, references holds the sources
\* of all findings, finding after finding and within a finding in source
\* order, and the index fields are 1, 2, ..., n, n being the number of
\* sources of all findings together.
SourcesInOrder == Flatten([i \in 1..Len(call.findings) |-> call.findings[i].sources])

C31_ReferencesFlattenedAndNumbered ==
    (call.op = "synthesize" /\ call.returned) =>
        /\ Len(call.result.references) = SumSeq([i \in 1..Len(call.findings) |->
                                                    Len(call.findings[i].sources)])
        /\ \A i \in 1..Len(call.result.references) :
               /\ call.result.references[i].index = i
               /\ call.result.references[i].source = SourcesInOrder[i]

C31_Witness ==
    /\ call.op = "synthesize" /\ call.returned
    /\ Len(call.findings) = 2
    /\ Len(call.findings[1].sources) = 2
    /\ Len(call.findings[2].sources) = 1
    /\ Len(call.result.references) = 3
    /\ call.result.references[3].index = 3
    /\ call.result.references[3].source = call.findings[2].sources[1]
    /\ call.result.references[3].source # call.result.references[1].source

\* C32: every verification record stored in the state has a
\* confidence_score between 0 and 1 (0..10 in tenths), and an LLM verdict
\* whose score lies outside that range is not stored: the auto-approved
\* record stands in its place.
ScoreOutOfRange(resp) ==
    /\ resp.kind = "text"
    /\ resp.payload.type = "verification"
    /\ resp.payload.confidence_score \notin 0..10

C32_StoredConfidenceInRange ==
    verification # None =>
        /\ verification.confidence_score \in 0..10
        /\ (verify_resp # None /\ ScoreOutOfRange(verify_resp)) =>
               verification.confidence_score = DEFAULT_CONFIDENCE

C32_Witness ==
    /\ verify_resp # None
    /\ ScoreOutOfRange(verify_resp)
    /\ verify_resp.framing = "bare"
    /\ verification # None
    /\ verification.confidence_score = DEFAULT_CONFIDENCE
    /\ verification.approved

\* C39: a verdict that is not approved loops back only when the whole
\* response parses and validates.  When the response says approved = false
\* but is malformed (JSON after prose, is_complete missing, or a
\* confidence_score outside 0..1), the verify node moves on to
\* 'synthesizing', iteration keeps its value and nothing is re-researched.
SaysRejected(resp) ==
    /\ resp.kind = "text"
    /\ resp.payload.type = "verification"
    /\ ~resp.payload.approved

Malformed(resp) ==
    \/ resp.framing \in {"prose_bare", "prose_fence"}
    \/ ~resp.payload.has_is_complete
    \/ resp.payload.confidence_score \notin 0..10

C39_MalformedRejectionMovesOn ==
    [][node = "verify" =>
          /\ (SaysRejected(verify_resp') /\ Malformed(verify_resp')) =>
                 /\ node' = "synthesize"
                 /\ current_step' = "synthesizing"
                 /\ iteration' = iteration
                 /\ loop_backs' = loop_backs
                 /\ exec_passes' = exec_passes
          /\ node' = "execute" =>
                 /\ SaysRejected(verify_resp')
                 /\ ~Malformed(verify_resp')]_vars

C39_Witness ==
    /\ verify_resp # None
    /\ SaysRejected(verify_resp)
    /\ ~verify_resp.payload.has_is_complete
    /\ verify_resp.framing = "fence_start"
    /\ node = "END"
    /\ iteration = 0
    /\ loop_backs = 0
    /\ exec_passes = 1
    /\ report # None

\* C33: _extract_json takes as candidate what stands between the first '{'
\* and the last '}' of the first closed fenced block, or of the whole
\* trimmed text when no fenced block is closed, and does not track nesting:
\* a text with two objects one after the other, fenced or not, raises and
\* returns neither object, and so does a braced word before or after the
\* object; what stands outside the first closed fenced block is ignored.
OneLineObject ==
    /\ call.gap \in {<<>>, <<"SP">>}
    /\ \A i \in 1..Len(call.items) : call.items[i] = <<"x">>

C33_FirstBraceToLastBrace ==
    JsonDone =>
        /\ call.shape \in {"two", "brace_in_prose", "brace_after"} => call.raised
        /\ (call.shape \in {"fence_then_object", "object_then_fence", "two_fences",
                             "unclosed_fence"} /\ OneLineObject) =>
               call.returned /\ call.result = Flatten(call.items)
        /\ call.returned => call.result # <<"y">>

C33_Witness ==
    /\ JsonDone
    /\ call.shape = "two"
    /\ call.fenced
    /\ OneLineObject
    /\ call.items = <<<<"x">>>>
    /\ call.raised

\* C34: in every reachable state 0 <= iteration <= MAX_VERIFICATION_RETRIES,
\* and while current_step is 'executing' or 'verifying' iteration is
\* strictly below MAX_VERIFICATION_RETRIES.
C34_IterationBounded ==
    /\ MAX_VERIFICATION_RETRIES >= 1
    /\ iteration \in 0..MAX_VERIFICATION_RETRIES
    /\ current_step \in {"executing", "verifying"} => iteration < MAX_VERIFICATION_RETRIES

C34_Witness ==
    /\ iteration = MAX_VERIFICATION_RETRIES - 1
    /\ current_step = "verifying"
    /\ node = "verify"
    /\ loop_backs = MAX_VERIFICATION_RETRIES - 1

\* C35: in every run the Planner is invoked once; when planning succeeds,
\* each execute pass is followed by one verify pass, so that a halted run
\* counts as many verify passes as execute passes and at least one, and the
\* Synthesizer is invoked once, after the last verify pass.
PlanningSucceeded == plan_resp # None /\ PlannerAgent_plan(plan_resp).success

\* the notifications of one Synthesizer invocation: two when it stores a
\* report, one otherwise
SynthesizedOnce ==
    /\ Count(notified, "synthesizing") = IF report # None THEN 2 ELSE 1
    /\ \A i, j \in 1..Len(notified) :
           (notified[i] = "synthesizing" /\ notified[j] = "verifying") => j < i

C35_PassesPairedOneSynthesis ==
    Halted =>
        /\ plan_resp # None
        /\ Count(notified, "planning") = 2
        /\ PlanningSucceeded =>
               /\ exec_passes >= 1
               /\ Len(verdicts) = exec_passes
               /\ SynthesizedOnce

\* C36: a loop-back executes the same plan again and appends: after the
\* k-th completed execute pass findings holds k * len(plan.subtasks)
\* entries, the subtask ids of the plan in order once per pass, and this
\* is what the Verifier and the Synthesizer are given.
CompletedPasses ==
    IF node = "raised" /\ current_step = "executing" THEN exec_passes - 1 ELSE exec_passes

C36_FindingsOncePerPass ==
    IF plan = None
    THEN findings = <<>> /\ exec_passes = 0
    ELSE LET n == Len(plan.subtasks) IN
         /\ plan = PlannerAgent_plan(plan_resp).plan
         /\ Len(findings) = CompletedPasses * n
         /\ \A j \in 1..Len(findings) :
                findings[j].subtask_id = plan.subtasks[((j - 1) % n) + 1].id
         /\ report # None =>
                Len(report.references) = SumSeq([j \in 1..Len(findings) |->
                                                   Len(findings[j].sources)])

C36_Witness ==
    /\ node = "END"
    /\ exec_passes = 2
    /\ plan # None
    /\ Len(plan.subtasks) = 2
    /\ Len(findings) = 4
    /\ findings[3].subtask_id = findings[1].subtask_id
    /\ findings[4].subtask_id = findings[2].subtask_id
    /\ report # None
    /\ Len(report.references) = 4

\* C37: each of these fields has one writing node: plan is written only
\* by the plan node, findings only by the execute node, verification and
\* iteration only by the verify node, report only by the synthesize node;
\* no node changes query, and plan is never changed once it is set.
C37_SingleWriter ==
    [][/\ plan' # plan => node = "plan"
       /\ findings' # findings => node = "execute"
       /\ verification' # verification => node = "verify"
       /\ iteration' # iteration => node = "verify"
       /\ report' # report => node = "synthesize"
       /\ query' = query
       /\ plan # None => plan' = plan]_vars

C37_Witness ==
    /\ node = "END"
    /\ query = QueryLen
    /\ plan # None
    /\ findings # <<>>
    /\ verification # None
    /\ iteration = 1
    /\ exec_passes = 2
    /\ report # None

\* C38: the step names passed to the callback in one run have the shape
\* planning+ (executing+ verifying+)* synthesizing*: 'planning' comes
\* first and never after another name, every 'verifying' follows an
\* 'executing' of its pass, every 'executing' run is closed by a
\* 'verifying', and nothing but 'synthesizing' follows a 'synthesizing'.
NotifiedOrdered ==
    /\ \A i \in 1..Len(notified) :
           notified[i] \in {"planning", "executing", "verifying", "synthesizing"}
    /\ notified # <<>> => notified[1] = "planning"
    /\ \A i \in 1..(Len(notified) - 1) :
           /\ notified[i + 1] = "planning" => notified[i] = "planning"
           /\ notified[i + 1] = "executing" =>
                  notified[i] \in {"planning", "executing", "verifying"}
           /\ notified[i + 1] = "verifying" => notified[i] \in {"executing", "verifying"}
           /\ notified[i + 1] = "synthesizing" =>
                  notified[i] \in {"planning", "verifying", "synthesizing"}

C38_NotificationShape ==
    /\ NotifiedOrdered
    /\ Halted => (notified # <<>> /\ notified[Len(notified)] # "executing")

====
